---------------------------- MODULE Spec2Model ----------------------------
(***************************************************************************)
(* rive-toolkit-rn: the .riv container parser (bin/rivParser.js), the      *)
(* artboard-name resolver (bin/getArtboardNames.js) and the generate       *)
(* command (bin/generate.js), as state machines.                           *)
(*                                                                         *)
(*   ParserSpec : parseRivFile walking one byte buffer                     *)
(*   VaruintSpec: one readVaruint call on a fresh reader                   *)
(*   GenSpec    : generateArtboardTypes called on one output directory     *)
(*   Spec       : one run of `generate`, with getArtboardNames and         *)
(*                extractWithHeadlessBrowser as its callees                *)
(***************************************************************************)
EXTENDS Integers, Sequences, FiniteSets, TLC

VARIABLES
    \* ---- parseRivFile (bin/rivParser.js)
    given,          \* the input the buffer was built from (never changes)
    buffer,         \* the bytes handed to parseRivFile
    offset,         \* createReader's cursor
    ppc,            \* position in parseRivFile
    toc,            \* Map<propertyKey, backing type> built by parseToc
    artboardNames,  \* names pushed so far
    objectType,     \* the record being walked
    name,           \* the artboard name read in the record being walked
    major,          \* header: major version
    minor,          \* header: minor version
    rewinds,        \* how many times the cursor has moved backward
    \* ---- one call of a reader method (createReader, bin/rivParser.js)
    rpc,            \* "idle" | "call" | "returned" | "threw"
    rval,           \* the value the call returned
    \* ---- generate / getArtboardNames / extractWithHeadlessBrowser
    argv,           \* parsed command line: out, src, artboards
    file,           \* what the engine reports for the .riv file
    gpc,            \* position in generate
    rive,           \* result of import('@rive-app/canvas')
    apc,            \* position in getArtboardNames
    riveFile,       \* in-process engine handle: "undefined" | "live" | "cleaned"
    ipCleanups,     \* calls of riveFile.cleanup() in getArtboardNames
    ipOutcome,      \* how the in-process attempt ended
    aPending,       \* completion of getArtboardNames' try or catch block
    aResult,        \* how getArtboardNames' promise settled
    hpc,            \* position in extractWithHeadlessBrowser
    browser,        \* sandbox browser: "undefined" | "live" | "closed"
    launches,       \* calls of puppeteer.launch that returned a browser
    closes,         \* calls of browser.close()
    closeOutcome,   \* "none" | "closed" | "rejected": what browser.close() did
    pageFile,       \* engine handle inside the page: "undefined" | "live" | "cleaned"
    pageCleanups,   \* calls of riveFile.cleanup() inside page.evaluate
    hPending,       \* completion of extractWithHeadlessBrowser's try/catch
    hResult,        \* how extractWithHeadlessBrowser's promise settled
    parserRuns,     \* calls of parseRivFile made by the resolver
    genCalls,       \* arguments of each generateArtboardTypes call
    exitCode,       \* process exit: "none" | 0 | 1
    \* ---- generateArtboardTypes (bin/generateArtboardTypes.js)
    outDir,         \* the output directory: created or not, and its files
    genLog          \* each call so far: arguments, return value, directory after

pvars == <<given, buffer, offset, ppc, toc, artboardNames, objectType, name,
           major, minor, rewinds>>
rvars == <<argv, file, gpc, rive, apc, riveFile, ipCleanups, ipOutcome, aPending,
           aResult, hpc, browser, launches, closes, closeOutcome, pageFile,
           pageCleanups, hPending, hResult, parserRuns, genCalls, exitCode>>
cvars == <<rpc, rval>>
tvars == <<outDir, genLog>>
vars == <<pvars, rvars, cvars, tvars>>

(***************************************************************************)
(* Bounds                                                                  *)
(***************************************************************************)
MaxRecords == 3     \* records in a generated container
MaxArtboards == 2   \* artboards the engine reports for a file
MaxVaruintBytes == 6 \* bytes in a buffer handed to one readVaruint call
MaxNames == 2        \* artboard names in one generateArtboardTypes call
MaxCalls == 2        \* generateArtboardTypes calls on one output directory
MaxRewinds == 1     \* backward moves of the cursor followed before the walk is cut

(***************************************************************************)
(* bin/rivParser.js: constants                                             *)
(***************************************************************************)
RIVE_FINGERPRINT == <<82, 73, 86, 69>>
ARTBOARD_OBJECT_TYPE == 1
COMPONENT_NAME_PROPERTY_KEY == 4
BT_UintBool == 0
BT_String == 1
BT_Float == 2
BT_Color == 3
SUPPORTED_MAJOR == 7
MAX_SHIFT == 35

(***************************************************************************)
(* createReader: 32-bit arithmetic of readVaruint.  A 32-bit word is kept   *)
(* as [hi |-> bits 28..31, lo |-> bits 0..27].                             *)
(***************************************************************************)
RECURSIVE BitOr(_, _)
BitOr(a, b) ==
    IF a = 0 THEN b
    ELSE IF b = 0 THEN a
    ELSE (IF a % 2 = 1 \/ b % 2 = 1 THEN 1 ELSE 0) + 2 * BitOr(a \div 2, b \div 2)

\* result |= (byte & 0x7f) << shift : the shift count is taken modulo 32
OrShifted(w, payload, shift) ==
    LET eff == shift % 32 IN
    IF eff <= 24
    THEN LET full == payload * (2 ^ eff) IN
         [hi |-> BitOr(w.hi, full \div (2 ^ 28)),
          lo |-> BitOr(w.lo, full % (2 ^ 28))]
    ELSE IF eff >= 28
    THEN [hi |-> BitOr(w.hi, (payload * (2 ^ (eff - 28))) % 16), lo |-> w.lo]
    ELSE [hi |-> BitOr(w.hi, (payload \div (2 ^ (28 - eff))) % 16),
          lo |-> BitOr(w.lo, (payload % (2 ^ (28 - eff))) * (2 ^ eff))]

\* the word as the signed 32-bit number JavaScript's |= leaves
ToInt32(w) ==
    IF w.hi >= 8 THEN w.lo + (w.hi - 16) * (2 ^ 28) ELSE w.lo + w.hi * (2 ^ 28)

\* buffer[offset]: undefined outside the buffer, and undefined & mask is 0
ByteAt(buf, off) ==
    IF off >= 0 /\ off < Len(buf) THEN buf[off + 1] ELSE 0

Fail(off) == [ok |-> FALSE, val |-> 0, off |-> off]
Done(v, off) == [ok |-> TRUE, val |-> v, off |-> off]

RECURSIVE VaruintLoop(_, _, _, _)
VaruintLoop(buf, off, w, shift) ==
    IF off < Len(buf)
    THEN LET byte == ByteAt(buf, off)
             w2 == OrShifted(w, byte % 128, shift)
         IN IF byte < 128 THEN Done(ToInt32(w2), off + 1)
            ELSE IF shift + 7 > MAX_SHIFT THEN Fail(off + 1)
            ELSE VaruintLoop(buf, off + 1, w2, shift + 7)
    ELSE Fail(off)

readVaruint(buf, off) == VaruintLoop(buf, off, [hi |-> 0, lo |-> 0], 0)

readUint8(buf, off) ==
    IF off >= Len(buf) THEN Fail(off) ELSE Done(ByteAt(buf, off), off + 1)

skip(buf, off, count) ==
    IF off + count > Len(buf) THEN Fail(off) ELSE Done(0, off + count)

\* an index of subarray: a negative one counts from the end, all are clamped
Clamp(buf, i) ==
    IF i < 0 THEN (IF Len(buf) + i < 0 THEN 0 ELSE Len(buf) + i)
    ELSE IF i > Len(buf) THEN Len(buf) ELSE i

\* Buffer.subarray(start, end): empty when end <= start
Subarray(buf, start, end) ==
    IF Clamp(buf, end) <= Clamp(buf, start) THEN <<>>
    ELSE SubSeq(buf, Clamp(buf, start) + 1, Clamp(buf, end))

\* toString('utf8') of bytes none of which starts a valid multi-byte sequence:
\* every byte above 0x7f decodes to U+FFFD
REPLACEMENT_CHAR == 65533
Utf8(bytes) ==
    [i \in 1..Len(bytes) |-> IF bytes[i] < 128 THEN bytes[i] ELSE REPLACEMENT_CHAR]

readString(buf, off) ==
    LET len == readVaruint(buf, off) IN
    IF ~len.ok THEN Fail(len.off)
    ELSE IF len.off + len.val > Len(buf) THEN Fail(len.off)
    ELSE Done(Utf8(Subarray(buf, len.off, len.off + len.val)), len.off + len.val)

(***************************************************************************)
(* parseToc                                                                *)
(***************************************************************************)
RECURSIVE ReadKeys(_, _, _)
ReadKeys(buf, off, keys) ==
    LET key == readVaruint(buf, off) IN
    IF ~key.ok THEN Fail(key.off)
    ELSE IF key.val = 0 THEN Done(keys, key.off)
    ELSE ReadKeys(buf, key.off, Append(keys, key.val))

AlignedNumBytes(n) ==
    LET numBytes == (n * 2 + 7) \div 8 IN ((numBytes + 3) \div 4) * 4

TwoBits(typeBytes, i) ==
    (typeBytes[(i \div 4) + 1] \div (2 ^ ((i % 4) * 2))) % 4

\* propertyKeys.forEach((k, i) => toc.set(k, twoBits)): the last entry of a key wins
TocOf(propertyKeys, typeBytes) ==
    [k \in {propertyKeys[i] : i \in 1..Len(propertyKeys)} |->
        LET last == CHOOSE i \in 1..Len(propertyKeys) :
                        /\ propertyKeys[i] = k
                        /\ \A j \in 1..Len(propertyKeys) : propertyKeys[j] = k => j <= i
        IN TwoBits(typeBytes, last - 1)]

parseToc(buf, off) ==
    LET keys == ReadKeys(buf, off, <<>>) IN
    IF ~keys.ok THEN Fail(keys.off)
    ELSE LET n == AlignedNumBytes(Len(keys.val)) IN
         IF keys.off + n > Len(buf) THEN Fail(keys.off)
         ELSE Done(TocOf(keys.val, SubSeq(buf, keys.off + 1, keys.off + n)),
                   keys.off + n)

TocGet(t, k) == IF k \in DOMAIN t THEN t[k] ELSE 0

\* a skip that knows no length-prefixed text: every value taken as 4 bytes wide
skipFixedWidth(buf, off, backingType) == skip(buf, off, 4)

skipPropertyValue(buf, off, backingType) ==
    IF backingType = BT_String
    THEN LET len == readVaruint(buf, off) IN
         IF ~len.ok THEN Fail(len.off) ELSE skip(buf, len.off, len.val)
    ELSE skip(buf, off, 4)


(***************************************************************************)
(* Containers the buffers are built from (format: magic, three varuints,   *)
(* table of contents, object stream).  A property is [key, text]; it is     *)
(* written as length-prefixed text when its key is declared text and as a   *)
(* 4-byte value otherwise.                                                  *)
(***************************************************************************)
RECURSIVE EncVaruint(_)
EncVaruint(n) ==
    IF n < 128 THEN <<n>> ELSE <<128 + (n % 128)>> \o EncVaruint(n \div 128)

KindOf(tocSpec, key) ==
    LET hits == {i \in 1..Len(tocSpec) : tocSpec[i].key = key} IN
    IF hits = {} THEN BT_UintBool ELSE tocSpec[CHOOSE i \in hits : TRUE].kind

RECURSIVE EncKeys(_)
EncKeys(tocSpec) ==
    IF tocSpec = <<>> THEN <<>>
    ELSE EncVaruint(Head(tocSpec).key) \o EncKeys(Tail(tocSpec))

RECURSIVE PackKinds(_, _)
PackKinds(tocSpec, i) ==
    IF i > Len(tocSpec) THEN 0
    ELSE tocSpec[i].kind * (4 ^ ((i - 1) % 4))
         + (IF i % 4 = 0 THEN 0 ELSE PackKinds(tocSpec, i + 1))

EncToc(tocSpec) ==
    LET nBytes == (Len(tocSpec) + 3) \div 4
        nWords == (nBytes + 3) \div 4
    IN EncKeys(tocSpec) \o <<0>>
       \o [j \in 1..(4 * nWords) |->
              IF j <= nBytes THEN PackKinds(tocSpec, 4 * (j - 1) + 1) ELSE 0]

SCALAR_BYTES == <<1, 0, 0, 0>>

EncProp(tocSpec, prop) ==
    EncVaruint(prop.key)
    \o (IF KindOf(tocSpec, prop.key) = BT_String
        THEN EncVaruint(Len(prop.text)) \o prop.text
        ELSE SCALAR_BYTES)

RECURSIVE EncProps(_, _)
EncProps(tocSpec, props) ==
    IF props = <<>> THEN <<>>
    ELSE EncProp(tocSpec, Head(props)) \o EncProps(tocSpec, Tail(props))

EncRecord(tocSpec, rec) ==
    EncVaruint(rec.type) \o EncProps(tocSpec, rec.props) \o <<0>>

RECURSIVE EncRecords(_, _)
EncRecords(tocSpec, recs) ==
    IF recs = <<>> THEN <<>>
    ELSE EncRecord(tocSpec, Head(recs)) \o EncRecords(tocSpec, Tail(recs))

EncHeader == RIVE_FINGERPRINT \o <<SUPPORTED_MAJOR, 0, 0>>

EncContainer(tocSpec, recs) ==
    EncHeader \o EncToc(tocSpec) \o EncRecords(tocSpec, recs)

Prop(k, t) == [key |-> k, text |-> t]
Kind(k, b) == [key |-> k, kind |-> b]

PlainToc ==
    <<Kind(4, BT_String), Kind(5, BT_UintBool), Kind(6, BT_String),
      Kind(7, BT_Float), Kind(8, BT_Color)>>

TocLib ==
    { PlainToc,
      <<Kind(7, BT_Float), Kind(8, BT_Color), Kind(5, BT_UintBool),
        Kind(6, BT_String), Kind(4, BT_String)>>,
      <<Kind(4, BT_UintBool), Kind(5, BT_Float), Kind(6, BT_String),
        Kind(7, BT_Color), Kind(8, BT_String)>> }

RecordLib ==
    { [type |-> 1, props |-> <<Prop(5, <<>>), Prop(4, <<66, 67>>)>>],
      [type |-> 1, props |-> <<>>],
      [type |-> 1, props |-> <<Prop(4, <<>>)>>],
      [type |-> 2, props |-> <<Prop(6, <<0, 1>>), Prop(7, <<>>), Prop(8, <<>>)>>],
      [type |-> 130, props |-> <<Prop(4, <<88>>)>>] }

RecordSeqs == UNION {[1..n -> RecordLib] : n \in 0..MaxRecords}

INVALID_VARUINT == <<128, 128, 128, 128, 128, 128>>
NEGATIVE_LENGTH == <<128, 128, 128, 128, 8>>
OTHER_MAJOR == <<6, 0, 0, 1, 0>>
JunkLib == {<<>>, INVALID_VARUINT, NEGATIVE_LENGTH, OTHER_MAJOR}

Take(s, n) == IF n = 0 THEN <<>> ELSE SubSeq(s, 1, n)


(***************************************************************************)
(* parseRivFile, one reader call per step                                  *)
(***************************************************************************)
\* a catch that gives up what was collected
DropOnFailure(names) == <<>>

\* catch (_) {} ... return { artboardNames, ... }: what a failed read leaves
OnReadFailure(names) == names

\* while (!reader.eof() && reader.remaining() >= 2)
LoopCondition(buf, off) == ~(off >= Len(buf)) /\ Len(buf) - off >= 2

\* artboardNames.push(name) once the record's zero key is read
Captured(names, type, nm) ==
    IF type = ARTBOARD_OBJECT_TYPE THEN Append(names, nm) ELSE names

\* the value of one property: read as the name, or skipped by its backing type
ReadValue(buf, off, type, propKey, backingType) ==
    IF type = ARTBOARD_OBJECT_TYPE
       /\ propKey = COMPONENT_NAME_PROPERTY_KEY /\ backingType = BT_String
    THEN [readString(buf, off) EXCEPT !.val = [isName |-> TRUE, text |-> @]]
    ELSE [skipPropertyValue(buf, off, backingType)
             EXCEPT !.val = [isName |-> FALSE, text |-> <<>>]]

\* if (major !== 7) throw ...   (AnyMajor: the check left out)
AnyMajor(m) == TRUE
MajorSupported(m) == m = SUPPORTED_MAJOR

CheckFingerprint ==
    /\ ppc = "start"
    /\ IF Len(buffer) < 4 \/ SubSeq(buffer, 1, 4) # RIVE_FINGERPRINT
       THEN ppc' = "threw" /\ UNCHANGED offset
       ELSE ppc' = "version" /\ offset' = skip(buffer, offset, 4).off
    /\ UNCHANGED <<given, buffer, toc, artboardNames, objectType, name, major, minor, rewinds>>
    /\ UNCHANGED <<rvars, cvars, tvars>>

ReadVersion ==
    /\ ppc = "version"
    /\ LET a == readVaruint(buffer, offset)
           b == readVaruint(buffer, a.off)
           c == readVaruint(buffer, b.off)
       IN IF ~a.ok
          THEN ppc' = "threw" /\ offset' = a.off /\ UNCHANGED <<major, minor>>
          ELSE IF ~b.ok
          THEN ppc' = "threw" /\ offset' = b.off /\ major' = a.val /\ UNCHANGED minor
          ELSE /\ major' = a.val
               /\ minor' = b.val
               /\ offset' = c.off
               /\ ppc' = IF c.ok /\ MajorSupported(a.val) THEN "toc" ELSE "threw"
    /\ UNCHANGED <<given, buffer, toc, artboardNames, objectType, name, rewinds>>
    /\ UNCHANGED <<rvars, cvars, tvars>>

ParseToc ==
    /\ ppc = "toc"
    /\ LET t == parseToc(buffer, offset)
       IN IF t.ok
          THEN toc' = t.val /\ offset' = t.off /\ ppc' = "loop"
          ELSE offset' = t.off /\ ppc' = "threw" /\ UNCHANGED toc
    /\ UNCHANGED <<given, buffer, artboardNames, objectType, name, major, minor, rewinds>>
    /\ UNCHANGED <<rvars, cvars, tvars>>

LoopHead ==
    /\ ppc = "loop"
    /\ offset >= -2
    /\ IF ~LoopCondition(buffer, offset)
       THEN ppc' = "returned" /\ UNCHANGED <<offset, objectType, name, artboardNames>>
       ELSE LET t == readVaruint(buffer, offset)
            IN /\ offset' = t.off
               /\ IF t.ok
                  THEN /\ objectType' = t.val
                       /\ name' = <<>>
                       /\ ppc' = "props"
                       /\ UNCHANGED artboardNames
                  ELSE /\ ppc' = "returned"
                       /\ artboardNames' = OnReadFailure(artboardNames)
                       /\ UNCHANGED <<objectType, name>>
    /\ UNCHANGED <<given, buffer, toc, major, minor, rewinds>>
    /\ UNCHANGED <<rvars, cvars, tvars>>

\* below the buffer every read yields 0: records of type 0 with no property,
\* two bytes each, until the cursor is back at the buffer
WalkUndefined ==
    /\ ppc = "loop"
    /\ offset < -2
    /\ offset' = IF offset % 2 = 0 THEN -2 ELSE -1
    /\ objectType' = 0
    /\ name' = <<>>
    /\ UNCHANGED <<given, buffer, ppc, toc, artboardNames, major, minor, rewinds>>
    /\ UNCHANGED <<rvars, cvars, tvars>>

ReadProperty ==
    /\ ppc = "props"
    /\ rewinds <= MaxRewinds
    /\ LET k == readVaruint(buffer, offset)
           backingType == TocGet(toc, k.val)
           v == ReadValue(buffer, k.off, objectType, k.val, backingType)
       IN IF ~k.ok
          THEN /\ offset' = k.off
               /\ ppc' = "returned"
               /\ artboardNames' = OnReadFailure(artboardNames)
               /\ UNCHANGED name
          ELSE IF k.val = 0
          THEN /\ offset' = k.off
               /\ ppc' = "loop"
               /\ artboardNames' = Captured(artboardNames, objectType, name)
               /\ UNCHANGED name
          ELSE IF ~v.ok
          THEN /\ offset' = v.off
               /\ ppc' = "returned"
               /\ artboardNames' = OnReadFailure(artboardNames)
               /\ UNCHANGED name
          ELSE /\ offset' = v.off
               /\ name' = IF v.val.isName THEN v.val.text ELSE name
               /\ UNCHANGED <<ppc, artboardNames>>
    /\ rewinds' = IF offset' < offset THEN rewinds + 1 ELSE rewinds
    /\ UNCHANGED <<given, buffer, toc, objectType, major, minor>>
    /\ UNCHANGED <<rvars, cvars, tvars>>

ReaderIdle == rpc = "idle" /\ rval = 0

GeneratorIdle ==
    /\ outDir = [created |-> FALSE, files |-> <<>>]
    /\ genLog = <<>>

ResolverIdle ==
    /\ argv = [out |-> FALSE, src |-> FALSE, artboards |-> [given |-> FALSE, text |-> <<>>]]
    /\ file = <<>>
    /\ gpc = "idle" /\ apc = "idle" /\ hpc = "idle"
    /\ rive = "unset"
    /\ riveFile = "undefined" /\ browser = "undefined" /\ pageFile = "undefined"
    /\ ipCleanups = 0 /\ launches = 0 /\ closes = 0 /\ pageCleanups = 0
    /\ ipOutcome = "none"
    /\ closeOutcome = "none"
    /\ aPending = [kind |-> "none", value |-> [isNull |-> TRUE, artboardNames |-> <<>>, stateMachinesByArtboard |-> <<>>]]
    /\ aResult = [state |-> "pending", value |-> [isNull |-> TRUE, artboardNames |-> <<>>, stateMachinesByArtboard |-> <<>>]]
    /\ hPending = [isNull |-> TRUE, artboardNames |-> <<>>, stateMachinesByArtboard |-> <<>>]
    /\ hResult = [state |-> "pending", value |-> [isNull |-> TRUE, artboardNames |-> <<>>, stateMachinesByArtboard |-> <<>>]]
    /\ parserRuns = 0
    /\ genCalls = <<>>
    /\ exitCode = "none"

ParserInit ==
    /\ \E tocSpec \in TocLib, recs \in RecordSeqs, junk \in JunkLib :
          \E cut \in 0..Len(EncContainer(tocSpec, recs)) :
             \* whole containers under every table of contents; cut and
             \* junk-extended ones under the plain one
             /\ tocSpec = PlainToc \/ (cut = Len(EncContainer(tocSpec, recs)) /\ junk = <<>>)
             /\ given = [toc |-> tocSpec, records |-> recs, cut |-> cut, junk |-> junk]
             /\ buffer = Take(EncContainer(tocSpec, recs), cut) \o junk
    /\ offset = 0
    /\ ppc = "start"
    /\ toc = <<>>
    /\ artboardNames = <<>>
    /\ objectType = 0
    /\ name = <<>>
    /\ major = 0
    /\ minor = 0
    /\ rewinds = 0
    /\ ReaderIdle
    /\ ResolverIdle
    /\ GeneratorIdle

ParserNext ==
    \/ CheckFingerprint
    \/ ReadVersion
    \/ ParseToc
    \/ LoopHead
    \/ WalkUndefined
    \/ ReadProperty

ParserSpec == ParserInit /\ [][ParserNext]_vars

(***************************************************************************)
(* One call of readVaruint on a fresh reader over a buffer of a few bytes   *)
(***************************************************************************)
\* terminating bytes (payload 0, 1, 8) and continuing ones (payload 0, 127)
VaruintBytes == {0, 1, 8, 128, 255}
VaruintBuffers == UNION {[1..n -> VaruintBytes] : n \in 0..MaxVaruintBytes}

VaruintInit ==
    /\ buffer \in VaruintBuffers
    /\ offset = 0
    /\ rpc = "call"
    /\ rval = 0
    /\ given = [toc |-> <<>>, records |-> <<>>, cut |-> 0, junk |-> <<>>]
    /\ ppc = "idle"
    /\ toc = <<>>
    /\ artboardNames = <<>>
    /\ objectType = 0
    /\ name = <<>>
    /\ major = 0
    /\ minor = 0
    /\ rewinds = 0
    /\ ResolverIdle
    /\ GeneratorIdle

CallReadVaruint ==
    /\ rpc = "call"
    /\ LET r == readVaruint(buffer, offset) IN
          /\ rpc' = (IF r.ok THEN "returned" ELSE "threw")
          /\ rval' = r.val
          /\ offset' = r.off
    /\ UNCHANGED <<given, buffer, ppc, toc, artboardNames, objectType, name,
                   major, minor, rewinds>>
    /\ UNCHANGED <<rvars, tvars>>

VaruintNext == CallReadVaruint

VaruintSpec == VaruintInit /\ [][VaruintNext]_vars


(***************************************************************************)
(* bin/generate.js and bin/getArtboardNames.js.  Names are character        *)
(* sequences; NULL stands for a null name.                                  *)
(***************************************************************************)
NULL == <<-1>>
COMMA == 44
SPACE == 32

Null == [isNull |-> TRUE, artboardNames |-> <<>>, stateMachinesByArtboard |-> <<>>]
Names(ns, sm) == [isNull |-> FALSE, artboardNames |-> ns, stateMachinesByArtboard |-> sm]
Pending == [state |-> "pending", value |-> Null]
Resolved(v) == [state |-> "resolved", value |-> v]
Rejected == [state |-> "rejected", value |-> Null]

\* String.prototype.trim
RECURSIVE TrimLeft(_)
TrimLeft(str) ==
    IF str # <<>> /\ Head(str) = SPACE THEN TrimLeft(Tail(str)) ELSE str

RECURSIVE TrimRight(_)
TrimRight(str) ==
    IF str # <<>> /\ str[Len(str)] = SPACE
    THEN TrimRight(SubSeq(str, 1, Len(str) - 1)) ELSE str

Trim(str) == TrimRight(TrimLeft(str))

\* String.prototype.split(',')
RECURSIVE Split(_, _)
Split(str, piece) ==
    IF str = <<>> THEN <<piece>>
    ELSE IF Head(str) = COMMA THEN <<piece>> \o Split(Tail(str), <<>>)
    ELSE Split(Tail(str), Append(piece, Head(str)))

NonEmpty(str) == str # <<>>

\* artboardsArg.split(',').map((s) => s.trim()).filter(Boolean)
ParseArtboardsArg(text) ==
    SelectSeq([i \in 1..Len(Split(text, <<>>)) |-> Trim(Split(text, <<>>)[i])], NonEmpty)

\* names.filter((n) => n != null && String(n).trim() !== '')
Named(n) == n # NULL /\ Trim(n) # <<>>

\* the enumeration loop: names of the artboards whose name is not null
RECURSIVE EnumNames(_)
EnumNames(f) ==
    IF f = <<>> THEN <<>>
    ELSE (IF Head(f).name # NULL THEN <<Head(f).name>> ELSE <<>>) \o EnumNames(Tail(f))

\* stateMachinesByArtboard[artboardName] = smNames, when smNames is not empty
EnumStateMachines(f) ==
    LET keyed == {i \in 1..Len(f) : f[i].name # NULL /\ f[i].sms # <<>>}
    IN [n \in {f[i].name : i \in keyed} |->
           f[CHOOSE i \in keyed : f[i].name = n /\ \A j \in keyed : f[j].name = n => j <= i].sms]

\* what an enumeration of `f` returns
EnumResult(f) ==
    IF SelectSeq(EnumNames(f), Named) = <<>> THEN Null
    ELSE Names(SelectSeq(EnumNames(f), Named), EnumStateMachines(f))

ArtboardLib ==
    { [name |-> <<65>>, sms |-> << <<83>> >>],
      [name |-> <<66>>, sms |-> <<>>],
      [name |-> <<SPACE>>, sms |-> << <<83>> >>],
      [name |-> NULL, sms |-> <<>>] }

Files == UNION {[1..n -> ArtboardLib] : n \in 0..MaxArtboards}

ArtboardsArgs ==
    { [given |-> FALSE, text |-> <<>>],
      [given |-> TRUE, text |-> <<67>>],
      [given |-> TRUE, text |-> <<67, COMMA, SPACE, 68>>],
      [given |-> TRUE, text |-> <<COMMA, SPACE>>] }

\* const useHeadless = !rive || !rive.RiveFile
useHeadless == rive \in {"null", "noRiveFile"}

\* return extractWithHeadlessBrowser(...) in the catch block: the call is made,
\* the finally block runs, and only then is the returned promise followed.
\* "await" would be: the catch block waits for the sandbox before the finally.
CatchAwaitsSandbox == "await"
CatchReturnsSandbox == "return"

\* finally { if (browser) await browser.close()... }
ClosesOnlyOnSuccess == browser = "live" /\ ~hPending.isNull
ShouldClose == browser = "live"

\* the awaited import of puppeteer resumes only once the caller's synchronous
\* catch and finally blocks have run
SandboxMayResume == apc # "finally"

ParserIdle ==
    /\ given = [toc |-> <<>>, records |-> <<>>, cut |-> 0, junk |-> <<>>]
    /\ buffer = <<>>
    /\ offset = 0
    /\ ppc = "idle"
    /\ toc = <<>>
    /\ artboardNames = <<>>
    /\ objectType = 0
    /\ name = <<>>
    /\ major = 0
    /\ minor = 0
    /\ rewinds = 0

Init ==
    /\ ParserIdle
    /\ ReaderIdle
    /\ GeneratorIdle
    /\ argv \in [out : BOOLEAN, src : BOOLEAN, artboards : ArtboardsArgs]
    /\ file \in Files
    /\ gpc = "start" /\ apc = "idle" /\ hpc = "idle"
    /\ rive = "unset"
    /\ riveFile = "undefined" /\ browser = "undefined" /\ pageFile = "undefined"
    /\ ipCleanups = 0 /\ launches = 0 /\ closes = 0 /\ pageCleanups = 0
    /\ ipOutcome = "none"
    /\ closeOutcome = "none"
    /\ aPending = [kind |-> "none", value |-> Null]
    /\ aResult = Pending
    /\ hPending = Null
    /\ hResult = Pending
    /\ parserRuns = 0
    /\ genCalls = <<>>
    /\ exitCode = "none"

(***************************************************************************)
(* extractWithHeadlessBrowser                                              *)
(***************************************************************************)
hvars == <<hpc, browser, launches, closes, closeOutcome, pageFile, pageCleanups,
           hPending, hResult>>
avars == <<apc, riveFile, ipCleanups, ipOutcome, aPending, aResult>>
gvars == <<argv, file, gpc, rive, parserRuns, genCalls, exitCode>>

\* process.exit(1) ends every pending continuation
ProcessAlive == exitCode # "failure"

\* await import('puppeteer').catch(() => null), then puppeteer.default.launch
HImport ==
    /\ hpc = "import"
    /\ ProcessAlive
    /\ SandboxMayResume
    /\ \E available \in BOOLEAN :
          IF available THEN hpc' = "launch" /\ UNCHANGED hPending
          ELSE hpc' = "finally" /\ hPending' = Null
    /\ UNCHANGED <<browser, launches, closes, closeOutcome, pageFile, pageCleanups, hResult>>
    /\ UNCHANGED <<avars, gvars, pvars, cvars, tvars>>

\* browser = await puppeteer.default.launch(...); then browser.newPage()
HLaunch ==
    /\ hpc = "launch"
    /\ ProcessAlive
    /\ \E launched \in BOOLEAN :
          IF launched
          THEN browser' = "live" /\ launches' = launches + 1 /\ hpc' = "newPage"
               /\ UNCHANGED hPending
          ELSE hpc' = "finally" /\ hPending' = Null /\ UNCHANGED <<browser, launches>>
    /\ UNCHANGED <<closes, closeOutcome, pageFile, pageCleanups, hResult>>
    /\ UNCHANGED <<avars, gvars, pvars, cvars, tvars>>

\* await browser.newPage(); await page.setContent(...); await page.waitForFunction(...)
HPageStep ==
    /\ hpc \in {"newPage", "setContent", "waitForFunction"}
    /\ ProcessAlive
    /\ \E ok \in BOOLEAN :
          IF ok
          THEN hpc' = (CASE hpc = "newPage" -> "setContent"
                         [] hpc = "setContent" -> "waitForFunction"
                         [] OTHER -> "evaluate")
               /\ UNCHANGED hPending
          ELSE hpc' = "finally" /\ hPending' = Null
    /\ UNCHANGED <<browser, launches, closes, closeOutcome, pageFile, pageCleanups, hResult>>
    /\ UNCHANGED <<avars, gvars, pvars, cvars, tvars>>

PageOutcomes ==
    {"evaluateRejects", "noRive", "awaitInstanceThrows", "constructorThrows",
     "initThrows", "noArtboardApi", "enumerationThrows", "cleanupThrows", "enumerated"}

\* the engine handle after the function passed to page.evaluate has run
PageFileAfter(outcome) ==
    CASE outcome \in {"evaluateRejects", "noRive", "awaitInstanceThrows",
                      "constructorThrows"} -> "undefined"
      [] outcome \in {"initThrows", "noArtboardApi", "enumerationThrows"} -> "live"
      [] OTHER -> "cleaned"

\* const result = await page.evaluate(async (base64) => {...}); return result
HEvaluate ==
    /\ hpc = "evaluate"
    /\ ProcessAlive
    /\ \E outcome \in PageOutcomes :
          /\ pageFile' = PageFileAfter(outcome)
          /\ pageCleanups' = IF outcome \in {"cleanupThrows", "enumerated"}
                             THEN pageCleanups + 1 ELSE pageCleanups
          /\ hPending' = IF outcome = "enumerated" THEN EnumResult(file) ELSE Null
    /\ hpc' = "finally"
    /\ UNCHANGED <<browser, launches, closes, closeOutcome, hResult>>
    /\ UNCHANGED <<avars, gvars, pvars, cvars, tvars>>

\* finally { if (browser) await browser.close().catch(() => {}); }
HFinally ==
    /\ hpc = "finally"
    /\ ProcessAlive
    /\ IF ShouldClose
       THEN /\ closes' = closes + 1
            /\ browser' = "closed"
            /\ \E rejected \in BOOLEAN :
                  closeOutcome' = IF rejected THEN "rejected" ELSE "closed"
       ELSE UNCHANGED <<closes, browser, closeOutcome>>
    /\ hResult' = Resolved(hPending)
    /\ hpc' = "done"
    /\ UNCHANGED <<launches, pageFile, pageCleanups, hPending>>
    /\ UNCHANGED <<avars, gvars, pvars, cvars, tvars>>


(***************************************************************************)
(* getArtboardNames                                                        *)
(***************************************************************************)
\* buffer = fs.readFileSync(absolutePath); useHeadless; or enter the try block
AStart ==
    /\ apc = "start"
    /\ \E readable \in BOOLEAN :
          IF ~readable
          THEN /\ aResult' = Resolved(Null)
               /\ apc' = "done"
               /\ UNCHANGED <<ipOutcome, aPending, hpc>>
          ELSE IF useHeadless
          THEN /\ ipOutcome' = "unavailable"
               /\ hpc' = "import"
               /\ aPending' = [kind |-> "sandbox", value |-> Null]
               /\ apc' = "adopt"
               /\ UNCHANGED aResult
          ELSE /\ apc' = "awaitInstance"
               /\ UNCHANGED <<ipOutcome, aPending, aResult, hpc>>
    /\ UNCHANGED <<riveFile, ipCleanups>>
    /\ UNCHANGED <<browser, launches, closes, closeOutcome, pageFile, pageCleanups,
                   hPending, hResult>>
    /\ UNCHANGED <<gvars, pvars, cvars, tvars>>

\* await rive.RuntimeLoader.awaitInstance(); riveFile = new rive.RiveFile(...)
AConstruct ==
    /\ apc = "awaitInstance"
    /\ \E outcome \in {"awaitInstanceThrows", "constructorThrows", "constructed"} :
          IF outcome = "constructed"
          THEN riveFile' = "live" /\ apc' = "init"
          ELSE apc' = "catch" /\ UNCHANGED riveFile
    /\ UNCHANGED <<ipCleanups, ipOutcome, aPending, aResult>>
    /\ UNCHANGED <<hvars, gvars, pvars, cvars, tvars>>

\* artboardByIndex(0) throwing is caught inside the loop: that artboard is skipped
Enumerated(f, outcome) ==
    IF outcome = "itemThrows" /\ f # <<>> THEN EnumResult(Tail(f)) ELSE EnumResult(f)

\* await riveFile.init(); getInstance; the enumeration; return
AInit ==
    /\ apc = "init"
    /\ \E outcome \in {"initThrows", "countThrows", "noArtboardApi", "itemThrows",
                       "enumerated"} :
          IF outcome \in {"initThrows", "countThrows"}
          THEN apc' = "catch" /\ UNCHANGED <<ipOutcome, aPending>>
          ELSE IF outcome = "noArtboardApi"
          THEN /\ apc' = "finally"
               /\ ipOutcome' = "noArtboardApi"
               /\ aPending' = [kind |-> "value", value |-> Null]
          ELSE /\ apc' = "finally"
               /\ ipOutcome' = IF Enumerated(file, outcome).isNull
                               THEN "noNames" ELSE "names"
               /\ aPending' = [kind |-> "value", value |-> Enumerated(file, outcome)]
    /\ UNCHANGED <<riveFile, ipCleanups, aResult>>
    /\ UNCHANGED <<hvars, gvars, pvars, cvars, tvars>>

\* catch (err) { console.warn(...); return extractWithHeadlessBrowser(...); }
\* the call runs extractWithHeadlessBrowser up to its first await
ACatch ==
    /\ apc = "catch"
    /\ ipOutcome' = "threw"
    /\ hpc' = "import"
    /\ aPending' = [kind |-> "sandbox", value |-> Null]
    /\ apc' = IF CatchReturnsSandbox = "return" THEN "finally" ELSE "awaitSandbox"
    /\ UNCHANGED <<riveFile, ipCleanups, aResult>>
    /\ UNCHANGED <<browser, launches, closes, closeOutcome, pageFile, pageCleanups,
                   hPending, hResult>>
    /\ UNCHANGED <<gvars, pvars, cvars, tvars>>

\* how the promise settles once the finally block is through
Settle(pending, cleanupThrew) ==
    IF cleanupThrew THEN [apc |-> "done", aResult |-> Rejected]
    ELSE IF pending.kind = "sandbox" THEN [apc |-> "adopt", aResult |-> Pending]
    ELSE [apc |-> "done", aResult |-> Resolved(pending.value)]

\* finally { if (riveFile && typeof riveFile.cleanup === 'function') riveFile.cleanup(); }
AFinally ==
    /\ apc = "finally"
    /\ IF riveFile = "live"
       THEN /\ riveFile' = "cleaned"
            /\ ipCleanups' = ipCleanups + 1
            /\ \E cleanupThrew \in BOOLEAN :
                  /\ apc' = Settle(aPending, cleanupThrew).apc
                  /\ aResult' = Settle(aPending, cleanupThrew).aResult
       ELSE /\ apc' = Settle(aPending, FALSE).apc
            /\ aResult' = Settle(aPending, FALSE).aResult
            /\ UNCHANGED <<riveFile, ipCleanups>>
    /\ UNCHANGED <<ipOutcome, aPending>>
    /\ UNCHANGED <<hvars, gvars, pvars, cvars, tvars>>

\* the returned promise follows extractWithHeadlessBrowser's
AAdopt ==
    /\ apc \in {"adopt", "awaitSandbox"}
    /\ hResult.state # "pending"
    /\ IF apc = "adopt"
       THEN aResult' = hResult /\ apc' = "done" /\ UNCHANGED aPending
       ELSE /\ aPending' = [kind |-> "value", value |-> hResult.value]
            /\ apc' = "finally"
            /\ UNCHANGED aResult
    /\ UNCHANGED <<riveFile, ipCleanups, ipOutcome>>
    /\ UNCHANGED <<hvars, gvars, pvars, cvars, tvars>>

(***************************************************************************)
(* generate                                                                *)
(***************************************************************************)
\* stateMachinesByArtboard = resolvedData?.stateMachinesByArtboard ?? {}
GeneratorStateMachines(src, resolvedData) ==
    IF src /\ ~resolvedData.isNull THEN resolvedData.stateMachinesByArtboard ELSE <<>>

\* artboardNames: from the resolver unless --artboards is given, then from --artboards
GeneratorNames(src, arg, resolvedData) ==
    IF arg.given THEN ParseArtboardsArg(arg.text)
    ELSE IF src /\ ~resolvedData.isNull THEN resolvedData.artboardNames
    ELSE <<>>

\* if (artboardNames.length === 0 && !artboardsArg) ... process.exit(1)
\* (NothingWithoutSource: the same test made on --src instead of --artboards)
NothingWithoutSource(names, arg) == names = <<>> /\ ~argv.src
NothingToGenerate(names, arg) == names = <<>> /\ ~arg.given

\* if (!out) exit(1); import('@rive-app/canvas'); if (src) getArtboardNames(...)
GStart ==
    /\ gpc = "start"
    /\ IF ~argv.out
       THEN gpc' = "exited" /\ exitCode' = "failure" /\ UNCHANGED <<rive, apc>>
       ELSE /\ \E r \in {"null", "noRiveFile", "module"} : rive' = r
            /\ gpc' = "awaitNames"
            /\ apc' = IF argv.src THEN "start" ELSE apc
            /\ UNCHANGED exitCode
    /\ UNCHANGED <<argv, file, parserRuns, genCalls>>
    /\ UNCHANGED <<riveFile, ipCleanups, ipOutcome, aPending, aResult>>
    /\ UNCHANGED <<hvars, pvars, cvars, tvars>>

\* everything after the await of getArtboardNames, up to generateArtboardTypes
GFinish ==
    /\ gpc = "awaitNames"
    /\ argv.src => aResult.state # "pending"
    /\ LET names == GeneratorNames(argv.src, argv.artboards, aResult.value)
           sm == GeneratorStateMachines(argv.src, aResult.value)
       IN IF (argv.src /\ aResult.state = "rejected")
             \/ NothingToGenerate(names, argv.artboards)
          THEN gpc' = "exited" /\ exitCode' = "failure" /\ UNCHANGED genCalls
          ELSE /\ genCalls' = Append(genCalls,
                                     [artboardNames |-> names,
                                      stateMachinesByArtboard |-> sm,
                                      namesake |-> argv.src])
               /\ gpc' = "done"
               /\ exitCode' = "success"
    /\ UNCHANGED <<argv, file, rive, parserRuns>>
    /\ UNCHANGED <<avars, hvars, pvars, cvars, tvars>>

Next ==
    \/ GStart
    \/ GFinish
    \/ AStart
    \/ AConstruct
    \/ AInit
    \/ ACatch
    \/ AFinally
    \/ AAdopt
    \/ HImport
    \/ HLaunch
    \/ HPageStep
    \/ HEvaluate
    \/ HFinally

Spec == Init /\ [][Next]_vars

(***************************************************************************)
(* bin/generateArtboardTypes.js.  Strings are sequences of character codes. *)
(***************************************************************************)
UNDERSCORE == 95
QUOTE == 34
BACKSLASH == 92
NEWLINE == 10
UNNAMED == <<85, 110, 110, 97, 109, 101, 100>>             \* 'Unnamed'
RIVE == <<82, 105, 118, 101>>                              \* 'Rive'
ARTBOARD == <<65, 114, 116, 98, 111, 97, 114, 100>>        \* 'Artboard'
JSON_NULL == <<110, 117, 108, 108>>                        \* 'null'

IsDigit(c) == c \in 48..57
IsWordChar(c) == c \in 48..57 \/ c \in 65..90 \/ c \in 97..122 \/ c = UNDERSCORE

\* .replace(/[^a-zA-Z0-9_]/g, '_')
ReplaceNonWord(s) ==
    [i \in 1..Len(s) |-> IF IsWordChar(s[i]) THEN s[i] ELSE UNDERSCORE]

\* .replace(/_+/g, '_')
RECURSIVE CollapseUnderscores(_)
CollapseUnderscores(s) ==
    IF Len(s) < 2 THEN s
    ELSE IF s[1] = UNDERSCORE /\ s[2] = UNDERSCORE THEN CollapseUnderscores(Tail(s))
    ELSE <<s[1]>> \o CollapseUnderscores(Tail(s))

\* .replace(/^_|_$/g, ''): an underscore at the start and one at the end
\* (StripStart: the same pattern without the g flag, first match only)
StripStart(s) ==
    IF s # <<>> /\ s[1] = UNDERSCORE THEN Tail(s)
    ELSE IF s # <<>> /\ s[Len(s)] = UNDERSCORE THEN SubSeq(s, 1, Len(s) - 1)
    ELSE s
StripEnds(s) ==
    LET t == IF s # <<>> /\ s[1] = UNDERSCORE THEN Tail(s) ELSE s
    IN IF t # <<>> /\ t[Len(t)] = UNDERSCORE THEN SubSeq(t, 1, Len(t) - 1) ELSE t

\* ... || 'Unnamed'
OrUnnamed(s) == IF s = <<>> THEN UNNAMED ELSE s

toIdentifier(n) ==
    IF n = NULL \/ n = <<>> THEN UNNAMED
    ELSE LET s == OrUnnamed(StripEnds(CollapseUnderscores(ReplaceNonWord(n))))
         IN IF IsDigit(s[1]) THEN <<UNDERSCORE>> \o s ELSE s

\* Array.prototype.join
RECURSIVE Join(_, _)
Join(parts, sep) ==
    IF parts = <<>> THEN <<>>
    ELSE IF Len(parts) = 1 THEN parts[1]
    ELSE parts[1] \o sep \o Join(Tail(parts), sep)

\* JSON.stringify of a string (quotes and backslashes escaped) or of null
RECURSIVE JsonEscape(_)
JsonEscape(s) ==
    IF s = <<>> THEN <<>>
    ELSE (IF Head(s) \in {QUOTE, BACKSLASH} THEN <<BACKSLASH, Head(s)>> ELSE <<Head(s)>>)
         \o JsonEscape(Tail(s))

JsonString(s) ==
    IF s = NULL THEN JSON_NULL ELSE <<QUOTE>> \o JsonEscape(s) \o <<QUOTE>>

\* JSON.stringify of an array of strings: ["a","b"]
JsonArray(list) ==
    <<91>> \o Join([i \in 1..Len(list) |-> JsonString(list[i])], <<44>>) \o <<93>>

\* JSON.stringify(list, null, 2) at nesting depth 1
JsonArrayIndented(list) ==
    IF list = <<>> THEN <<91, 93>>
    ELSE <<91, NEWLINE>>
         \o Join([i \in 1..Len(list) |-> <<32, 32, 32, 32>> \o JsonString(list[i])],
                 <<44, NEWLINE>>)
         \o <<NEWLINE, 32, 32, 93>>

\* JSON.stringify(stateMachinesByArtboard, null, 2); the object is given as its
\* own properties in enumeration order, [key, list]
JsonObjectIndented(entries) ==
    IF entries = <<>> THEN <<123, 125>>
    ELSE <<123, NEWLINE>>
         \o Join([i \in 1..Len(entries) |->
                     <<32, 32>> \o JsonString(entries[i].key) \o <<58, 32>>
                     \o JsonArrayIndented(entries[i].list)],
                 <<44, NEWLINE>>)
         \o <<NEWLINE, 125>>


\* Array.prototype.sort() without a comparator: by UTF-16 code units
RECURSIVE LexLess(_, _)
LexLess(a, b) ==
    IF a = <<>> THEN b # <<>>
    ELSE IF b = <<>> THEN FALSE
    ELSE IF Head(a) # Head(b) THEN Head(a) < Head(b)
    ELSE LexLess(Tail(a), Tail(b))

RECURSIVE Insert(_, _)
Insert(sorted, x) ==
    IF sorted = <<>> THEN <<x>>
    ELSE IF LexLess(x, Head(sorted)) THEN <<x>> \o sorted
    ELSE <<Head(sorted)>> \o Insert(Tail(sorted), x)

RECURSIVE Sort(_)
Sort(list) == IF list = <<>> THEN <<>> ELSE Insert(Sort(Tail(list)), Head(list))

\* Object.values(stateMachinesByArtboard).flat()
RECURSIVE Flat(_)
Flat(entries) == IF entries = <<>> THEN <<>> ELSE Head(entries).list \o Flat(Tail(entries))

\* [...new Set(list)]: first occurrences, in order
\* (KeepDuplicates: the list as it is)
KeepDuplicates(list) == list
Unique(list) ==
    SelectSeq([i \in 1..Len(list) |->
                  IF \E j \in 1..(i - 1) : list[j] = list[i] THEN NULL ELSE list[i]],
              LAMBDA x : x # NULL)

\* options.baseName || 'RiveArtboard'
BaseNameOf(baseName) == IF baseName = <<>> THEN RIVE \o ARTBOARD ELSE baseName

\* baseName.replace(/Artboard$/, '') || 'Rive'
SmBaseNameOf(baseName) ==
    LET n == Len(baseName) - Len(ARTBOARD)
        cut == IF n >= 0 /\ SubSeq(baseName, n + 1, Len(baseName)) = ARTBOARD
               THEN SubSeq(baseName, 1, n) ELSE baseName
    IN IF cut = <<>> THEN RIVE ELSE cut

\* a file's content: the interpolated pieces of its template, in order
Piece(part, id, text) == [part |-> part, id |-> id, text |-> text]

\* fs.writeFileSync(path.join(outDir, file), content): create or replace
\* (AppendFile: fs.appendFileSync)
AppendFile(files, fileName, content) ==
    IF \E i \in DOMAIN files : files[i].name = fileName
    THEN [i \in DOMAIN files |->
             IF files[i].name = fileName
             THEN [files[i] EXCEPT !.content = @ \o content] ELSE files[i]]
    ELSE Append(files, [name |-> fileName, content |-> content])
WriteFile(files, fileName, content) ==
    IF \E i \in DOMAIN files : files[i].name = fileName
    THEN [i \in DOMAIN files |->
             IF files[i].name = fileName
             THEN [files[i] EXCEPT !.content = content] ELSE files[i]]
    ELSE Append(files, [name |-> fileName, content |-> content])

\* export type ${baseName}Name = ...; export const ${baseName}Names = ... as const;
ArtboardsTs(names, baseName) ==
    << Piece("type Name", baseName,
             Join([i \in 1..Len(names) |-> JsonString(names[i])], <<32, 124, 32>>)),
       Piece("const Names", baseName, JsonArray(names)),
       Piece("function isName", baseName, <<>>) >>

\* export const ${id} = ${JSON.stringify(artboardNames[i])} as const; ... type Id
TYPEOF == <<116, 121, 112, 101, 111, 102, 32>>             \* 'typeof '
ArtboardNamesTs(names, safeNames, baseName) ==
    [i \in 1..Len(names) |-> Piece("const", safeNames[i], JsonString(names[i]))]
    \o << Piece("type Id", baseName,
                Join([i \in 1..Len(safeNames) |-> TYPEOF \o safeNames[i]],
                     <<32, 124, 32>>)) >>

StateMachinesTs(stateMachineNames, entries, baseName) ==
    << Piece("import type Name", baseName, <<>>),
       Piece("type StateMachineName", SmBaseNameOf(baseName),
             Join([i \in 1..Len(stateMachineNames) |-> JsonString(stateMachineNames[i])],
                  <<32, 124, 32>>)),
       Piece("const StateMachineNames", SmBaseNameOf(baseName),
             JsonArray(stateMachineNames)),
       Piece("function isStateMachineName", SmBaseNameOf(baseName), <<>>),
       Piece("const stateMachinesByArtboard", baseName, JsonObjectIndented(entries)) >>

IndexTs(safeNames, baseName, withStateMachines) ==
    << Piece("export artboards", baseName, <<>>),
       Piece("export artboardNames", baseName, Join(safeNames, <<44, 32>>)) >>
    \o (IF withStateMachines
        THEN << Piece("export stateMachines", SmBaseNameOf(baseName), <<>>) >>
        ELSE <<>>)


TIP_BUTTON == <<84, 105, 112, 32, 66, 117, 116, 116, 111, 110>>   \* 'Tip Button'

\* 'A B', 'A-B', 'A__B', '123', '', '_', ' A ', 'Tip Button', and a value that
\* is not a string
NameLib ==
    { <<65, 32, 66>>, <<65, 45, 66>>, <<65, 95, 95, 66>>, <<49, 50, 51>>, <<>>,
      <<95>>, <<32, 65, 32>>, TIP_BUTTON, NULL }
NameLists == UNION {[1..n -> NameLib] : n \in 0..MaxNames}

\* no base name, 'W', 'Artboard'
BaseNames == {<<>>, <<87>>, ARTBOARD}

Entry(key, list) == [key |-> key, list |-> list]
\* {}, {'A B': ['T','S','S']}, {'A B': ['S'], 'A-B': ['S','R']}, {'123': []}
Mappings ==
    { <<>>,
      << Entry(<<65, 32, 66>>, << <<84>>, <<83>>, <<83>> >>) >>,
      << Entry(<<65, 32, 66>>, << <<83>> >>), Entry(<<65, 45, 66>>, << <<83>>, <<82>> >>) >>,
      << Entry(<<49, 50, 51>>, <<>>) >> }

GenInit ==
    /\ ParserIdle
    /\ ReaderIdle
    /\ ResolverIdle
    /\ GeneratorIdle

generateArtboardTypes(names, options) ==
    LET baseName == BaseNameOf(options.baseName)
        entries == options.stateMachinesByArtboard
        safeNames == [i \in 1..Len(names) |-> toIdentifier(names[i])]
        allStateMachineNames == Unique(Flat(entries))
        withStateMachines == allStateMachineNames # <<>>
        stateMachineNames ==
            IF withStateMachines THEN Sort(allStateMachineNames) ELSE <<>>
        f1 == WriteFile(outDir.files, "artboards.ts", ArtboardsTs(names, baseName))
        f2 == WriteFile(f1, "artboardNames.ts",
                        ArtboardNamesTs(names, safeNames, baseName))
        f3 == IF withStateMachines
              THEN WriteFile(f2, "stateMachines.ts",
                             StateMachinesTs(stateMachineNames, entries, baseName))
              ELSE f2
        f4 == WriteFile(f3, "index.ts", IndexTs(safeNames, baseName, withStateMachines))
        files == <<"artboards.ts", "artboardNames.ts">>
                 \o (IF withStateMachines THEN <<"stateMachines.ts">> ELSE <<>>)
                 \o <<"index.ts">>
    IN /\ outDir' = [created |-> TRUE, files |-> f4]
       /\ genLog' = Append(genLog,
                           [input |-> [artboardNames |-> names, options |-> options],
                            safeNames |-> safeNames,
                            \* the caller's objects after the call: nothing in
                            \* the function assigns to them or sorts them
                            args |-> [artboardNames |-> names, options |-> options],
                            returned |-> [artboardNames |-> names,
                                          stateMachineNames |-> stateMachineNames,
                                          files |-> files],
                            dir |-> [created |-> TRUE, files |-> f4]])
       /\ UNCHANGED <<pvars, rvars, cvars>>

\* the calls made on one directory: any first call; later calls regenerate for
\* the same artboards and base name, with the state machines then reported
GenNext ==
    /\ Len(genLog) < MaxCalls
    /\ \E names \in (IF genLog = <<>> THEN NameLists
                     ELSE {genLog[Len(genLog)].input.artboardNames}),
          baseName \in (IF genLog = <<>> THEN BaseNames
                        ELSE {genLog[Len(genLog)].input.options.baseName}),
          entries \in Mappings :
          generateArtboardTypes(names, [baseName |-> baseName,
                                        stateMachinesByArtboard |-> entries])

GenSpec == GenInit /\ [][GenNext]_vars


(***************************************************************************)
(* What the given container says, independently of the walk                *)
(***************************************************************************)
IsArtboard(rec) == rec.type = ARTBOARD_OBJECT_TYPE

\* the text of the record's last name property when the name key is declared text
RECURSIVE NameIn(_, _)
NameIn(props, sofar) ==
    IF props = <<>> THEN sofar
    ELSE NameIn(Tail(props),
                IF Head(props).key = COMPONENT_NAME_PROPERTY_KEY
                THEN Head(props).text ELSE sofar)

NameOfRecord(tocSpec, rec) ==
    IF KindOf(tocSpec, COMPONENT_NAME_PROPERTY_KEY) = BT_String
    THEN NameIn(rec.props, <<>>) ELSE <<>>

RECURSIVE NamesOf(_, _)
NamesOf(tocSpec, recs) ==
    IF recs = <<>> THEN <<>>
    ELSE (IF IsArtboard(Head(recs)) THEN <<NameOfRecord(tocSpec, Head(recs))>> ELSE <<>>)
         \o NamesOf(tocSpec, Tail(recs))

StreamStart(tocSpec) == Len(EncHeader) + Len(EncToc(tocSpec))

\* offset of the first byte after the k-th record
RecordEnd(tocSpec, recs, k) ==
    StreamStart(tocSpec) + Len(EncRecords(tocSpec, Take(recs, k)))

\* how many records lie wholly in the first `cut` bytes
CompleteRecords(tocSpec, recs, cut) ==
    Cardinality({k \in 1..Len(recs) : RecordEnd(tocSpec, recs, k) <= cut})

WholeContainer ==
    /\ given.junk = <<>>
    /\ given.cut = Len(EncContainer(given.toc, given.records))

\* an unknown record with properties between two artboard records
Interleaved(recs) ==
    /\ Len(recs) = 3
    /\ IsArtboard(recs[1]) /\ ~IsArtboard(recs[2]) /\ IsArtboard(recs[3])
    /\ recs[2].props # <<>>

\* C1: on a whole well-formed container parseRivFile does not throw, stands at a
\* record boundary whenever it is between records, and returns exactly the names
\* of the artboard-type records in file order, whatever other records lie
\* between them.
C1_WellFormedNames ==
    WholeContainer =>
        /\ ppc # "threw"
        /\ rewinds = 0
        /\ ppc = "loop" =>
              \E k \in 0..Len(given.records) :
                 /\ offset = RecordEnd(given.toc, given.records, k)
                 /\ artboardNames = NamesOf(given.toc, Take(given.records, k))
        /\ ppc = "returned" =>
              /\ offset = Len(buffer)
              /\ artboardNames = NamesOf(given.toc, given.records)
              /\ artboardNames =
                    NamesOf(given.toc, SelectSeq(given.records, IsArtboard))

C1_Witness ==
    /\ WholeContainer
    /\ ppc = "returned"
    /\ Interleaved(given.records)
    /\ given.records[2].props[1].text = <<0, 1>>
    /\ artboardNames = <<(<<66, 67>>), (<<66, 67>>)>>

\* the buffer is a well-formed container cut at or after the start of its object
\* stream, possibly followed by a varuint that never terminates
CutInStream ==
    /\ given.junk \in {<<>>, INVALID_VARUINT}
    /\ given.cut >= StreamStart(given.toc)

\* C2: when the buffer ends, or a varuint is invalid, inside the object stream,
\* parseRivFile does not throw and returns exactly the names of the artboard
\* records that lie wholly before that point, in file order.
C2_PartialNames ==
    CutInStream =>
        /\ ppc # "threw"
        /\ ppc = "returned" =>
              artboardNames =
                 NamesOf(given.toc,
                         Take(given.records,
                              CompleteRecords(given.toc, given.records, given.cut)))

\* the cut falls inside the second artboard record, before its zero key
C2_Witness ==
    /\ CutInStream
    /\ ppc = "returned"
    /\ Len(given.records) >= 2
    /\ IsArtboard(given.records[1]) /\ IsArtboard(given.records[2])
    /\ given.cut > RecordEnd(given.toc, given.records, 1) + 1
    /\ given.cut < RecordEnd(given.toc, given.records, 2)
    /\ Len(artboardNames) = 1
    /\ artboardNames[1] = <<66, 67>>

\* the three header varuints decode and the major version is the supported one
VersionHeaderValid ==
    /\ Len(buffer) >= 4
    /\ SubSeq(buffer, 1, 4) = RIVE_FINGERPRINT
    /\ LET a == readVaruint(buffer, 4)
           b == readVaruint(buffer, a.off)
           c == readVaruint(buffer, b.off)
       IN a.ok /\ b.ok /\ c.ok /\ a.val = SUPPORTED_MAJOR

\* C3: for a buffer with the magic and major version 7, parseRivFile never
\* throws, whatever follows the version header.
C3_NeverThrows == VersionHeaderValid => ppc # "threw"


\* C13: the name list parseRivFile returns never contains an empty string: an
\* artboard record without a name property, or with an empty name, adds no entry.
C13_NoEmptyName ==
    ppc = "returned" => \A i \in DOMAIN artboardNames : artboardNames[i] # <<>>


\* the buffer is too short, or does not start with the magic, or its major
\* version decodes to something else than 7
HeaderRejected ==
    \/ Len(buffer) < 4
    \/ SubSeq(buffer, 1, 4) # RIVE_FINGERPRINT
    \/ (readVaruint(buffer, 4).ok /\ readVaruint(buffer, 4).val # SUPPORTED_MAJOR)

\* where the version header (magic, major, minor, file id) ends
VersionEnd ==
    IF Len(buffer) < 4 THEN Len(buffer)
    ELSE readVaruint(buffer, readVaruint(buffer, readVaruint(buffer, 4).off).off).off

\* C18: for a buffer shorter than 4 bytes, or whose first 4 bytes are not 'RIVE',
\* or whose major version is not 7, parseRivFile throws: it never reaches the
\* table of contents or the object stream, reads no byte behind the version
\* header, builds no table, collects no name and does not return.
C18_RejectsBadHeader ==
    HeaderRejected =>
        /\ ppc \in {"start", "version", "threw"}
        /\ offset <= VersionEnd
        /\ toc = <<>>
        /\ artboardNames = <<>>

\* a well-formed header of major version 6 with a record behind it, rejected
\* after the three version numbers have been read
C18_Witness ==
    /\ ppc = "threw"
    /\ Len(buffer) >= 4
    /\ SubSeq(buffer, 1, 4) = RIVE_FINGERPRINT
    /\ major = 6
    /\ offset = 7
    /\ Len(buffer) > offset


VARUINT_MAX_BYTES == 5
Continues(b) == b >= 128
Payload(b) == b % 128

\* the length of the encoding at the head of the buffer: the position of the
\* first byte without the continuation bit, if it is among the first five
EncodingLength ==
    LET ends == {k \in 1..VARUINT_MAX_BYTES :
                    /\ k <= Len(buffer)
                    /\ ~Continues(buffer[k])
                    /\ \A i \in 1..(k - 1) : Continues(buffer[i])}
    IN IF ends = {} THEN 0 ELSE CHOOSE k \in ends : TRUE

\* sum of payload_i * 128^i over the first k bytes, k <= 4
RECURSIVE PayloadSum(_)
PayloadSum(k) ==
    IF k = 0 THEN 0 ELSE PayloadSum(k - 1) + Payload(buffer[k]) * (128 ^ (k - 1))

\* the value of a k-byte encoding, where it is below 2^31
FitsInt32(k) == k < VARUINT_MAX_BYTES \/ Payload(buffer[k]) < 8
EncodedValue(k) ==
    IF k < VARUINT_MAX_BYTES THEN PayloadSum(k)
    ELSE PayloadSum(k - 1) + Payload(buffer[k]) * (2 ^ 28)

\* C12: for an encoding that terminates within 5 bytes readVaruint returns the
\* non-negative sum of payload_i * 128^i and leaves the cursor just behind the
\* encoding; otherwise (5 bytes without a terminating byte, or the buffer ends
\* first) it throws, and no 6th byte has been consumed.
C12_DecodesWithinFiveBytes ==
    rpc \in {"returned", "threw"} =>
        IF EncodingLength > 0
        THEN /\ rpc = "returned"
             /\ offset = EncodingLength
             /\ rval >= 0
             /\ FitsInt32(EncodingLength) => rval = EncodedValue(EncodingLength)
        ELSE /\ rpc = "threw"
             /\ offset <= VARUINT_MAX_BYTES


(***************************************************************************)
(* Properties of the resolver                                              *)
(***************************************************************************)
ResolutionReturned == aResult.state # "pending"
SandboxSettled == hResult.state # "pending"
InProcessYieldedNothing ==
    ipOutcome \in {"unavailable", "threw", "noArtboardApi", "noNames"}
SandboxYieldedNothing ==
    hpc = "idle" \/ (SandboxSettled /\ hResult.value.isNull)

\* C4: whenever the in-process strategy yields no names (engine unavailable, a
\* throw, no artboard API, no named artboard), the sandbox strategy has been
\* attempted by the time resolution returns.
C4_SandboxAfterEmptyInProcess ==
    (ResolutionReturned /\ InProcessYieldedNothing) => hpc # "idle"

\* C5: when both engine strategies yield nothing, resolution has run parseRivFile
\* on the file bytes by the time it returns; and parseRivFile is never run once an
\* engine strategy yielded a name.
C5_ParserIsThirdStrategy ==
    /\ (ResolutionReturned /\ InProcessYieldedNothing /\ SandboxYieldedNothing)
          => parserRuns >= 1
    /\ (ipOutcome = "names" \/ ~hResult.value.isNull) => parserRuns = 0

\* C6: with --artboards given, no extraction strategy runs, with or without
\* --src, and the generator gets exactly the listed names and nothing that comes
\* from the source file.
C6_OverrideBypassesExtraction ==
    argv.artboards.given =>
        /\ apc = "idle"
        /\ hpc = "idle"
        /\ \A i \in DOMAIN genCalls :
              /\ genCalls[i].artboardNames = ParseArtboardsArg(argv.artboards.text)
              /\ genCalls[i].stateMachinesByArtboard = <<>>

\* C7: a launched sandbox browser is closed exactly once before
\* extractWithHeadlessBrowser's promise settles, on every exit path, never more
\* than once, and never when none was launched; the promise resolves with the
\* value the try or catch block returned, also when close() itself fails.
C7_BrowserClosedOnce ==
    /\ closes <= launches
    /\ launches <= 1
    /\ SandboxSettled =>
          /\ closes = launches
          /\ browser # "live"
          /\ hResult = Resolved(hPending)
    /\ closeOutcome = "rejected" => closes = 1

\* an error after the launch, and a close() that itself fails
C7_Witness ==
    /\ SandboxSettled
    /\ launches = 1
    /\ closes = 1
    /\ closeOutcome = "rejected"
    /\ pageFile = "live"
    /\ hResult.value.isNull

\* C8: every engine file handle a strategy constructs has had cleanup() invoked
\* once that strategy has exited, on every exit path.
C8_EveryHandleCleaned ==
    /\ ResolutionReturned => (riveFile # "live" /\ (riveFile = "cleaned" => ipCleanups = 1))
    /\ SandboxSettled => (pageFile # "live" /\ (pageFile = "cleaned" => pageCleanups = 1))

\* C9: getArtboardNames never rejects.
C9_NeverRejects == aResult.state # "rejected"

\* C10 as stated: the sandbox strategy has not begun while the in-process engine
\* file handle is still waiting for its cleanup().
C10_SandboxBeginsAfterCleanup == hpc # "idle" => riveFile # "live"

\* C10, amended: the in-process handle and a sandbox engine are never live
\* together: by the time extractWithHeadlessBrowser is past its import of
\* puppeteer (launch called or later), the in-process attempt has ended and
\* cleanup() of its handle, if one was constructed, has been called.
C10_NoTwoEnginesLive ==
    /\ hpc \notin {"idle", "import"} =>
          /\ apc \in {"adopt", "done"}
          /\ riveFile # "live"
          /\ riveFile = "cleaned" => ipCleanups = 1
    /\ ~(riveFile = "live" /\ (browser = "live" \/ pageFile = "live"))

C10_Witness ==
    /\ ipOutcome = "threw"
    /\ riveFile = "cleaned"
    /\ ipCleanups = 1
    /\ browser = "live"
    /\ pageFile = "live"


(***************************************************************************)
(* Properties of generate                                                  *)
(***************************************************************************)
GenerateEnded == gpc \in {"exited", "done"}
ExtractionYieldedNoNames ==
    \/ ~argv.src
    \/ aResult.state = "rejected"
    \/ aResult.value.isNull
    \/ aResult.value.artboardNames = <<>>

\* C11: when extraction yields no artboard name and --artboards is not given,
\* generate exits with failure and generateArtboardTypes is never called; and
\* without --out it exits with failure before the engine import, any extraction
\* strategy or the generator has run.
C11_FailsWithoutNames ==
    /\ ~argv.out =>
          /\ rive = "unset"
          /\ apc = "idle"
          /\ hpc = "idle"
          /\ parserRuns = 0
          /\ genCalls = <<>>
          /\ gpc # "start" => (gpc = "exited" /\ exitCode = "failure")
    /\ (GenerateEnded /\ ~argv.artboards.given /\ ExtractionYieldedNoNames) =>
          /\ exitCode = "failure"
          /\ genCalls = <<>>

\* both strategies ran on a file with artboards and neither gave a name
C11_Witness ==
    /\ GenerateEnded
    /\ argv.out
    /\ argv.src
    /\ ~argv.artboards.given
    /\ file # <<>>
    /\ ipOutcome # "none"
    /\ SandboxSettled
    /\ aResult = Resolved(Null)
    /\ exitCode = "failure"


\* C20: in every call of the generator, each key of the state-machine mapping is
\* one of the artboard names passed in the same call.
C20_MappingKeysAreNames ==
    \A i \in DOMAIN genCalls :
        \A key \in DOMAIN genCalls[i].stateMachinesByArtboard :
            \E j \in DOMAIN genCalls[i].artboardNames :
                genCalls[i].artboardNames[j] = key


\* C21: generateArtboardTypes is only ever called with a non-empty name list;
\* a run whose name list is empty after the split, trim and filter (also one
\* whose --artboards value holds only commas and spaces) ends in failure with
\* no call of the generator.
C21_GeneratorGetsNames ==
    /\ \A i \in DOMAIN genCalls : genCalls[i].artboardNames # <<>>
    /\ (GenerateEnded /\ argv.out
           /\ ~(argv.src /\ aResult.state = "pending")
           /\ GeneratorNames(argv.src, argv.artboards, aResult.value) = <<>>) =>
          /\ exitCode = "failure"
          /\ genCalls = <<>>


(***************************************************************************)
(* Properties of generateArtboardTypes                                     *)
(***************************************************************************)
Letters == (65..90) \cup (97..122)
Digits == 48..57
WordChars == Letters \cup Digits \cup {UNDERSCORE}

\* the transformation, step by step as it is described
RefReplace(s) == [i \in 1..Len(s) |-> IF s[i] \in WordChars THEN s[i] ELSE UNDERSCORE]

RECURSIVE RefCollapseFrom(_, _)
RefCollapseFrom(s, i) ==
    IF i > Len(s) THEN <<>>
    ELSE (IF i > 1 /\ s[i] = UNDERSCORE /\ s[i - 1] = UNDERSCORE THEN <<>> ELSE <<s[i]>>)
         \o RefCollapseFrom(s, i + 1)

RECURSIVE RefTrim(_)
RefTrim(s) ==
    IF s # <<>> /\ Head(s) = UNDERSCORE THEN RefTrim(Tail(s))
    ELSE IF s # <<>> /\ s[Len(s)] = UNDERSCORE THEN RefTrim(SubSeq(s, 1, Len(s) - 1))
    ELSE s

Reference(n) ==
    IF n = NULL THEN UNNAMED
    ELSE LET s == RefTrim(RefCollapseFrom(RefReplace(n), 1))
             u == IF s = <<>> THEN UNNAMED ELSE s
         IN IF u[1] \in Digits THEN <<UNDERSCORE>> \o u ELSE u

\* [A-Za-z_][A-Za-z0-9_]*
IsIdentifier(s) ==
    /\ s # <<>>
    /\ s[1] \in Letters \cup {UNDERSCORE}
    /\ \A i \in DOMAIN s : s[i] \in WordChars

TIP_UNDERSCORE_BUTTON == <<84, 105, 112, 95, 66, 117, 116, 116, 111, 110>>

\* C14: toIdentifier gives every name an identifier, the one the reference
\* transformation gives (non-word characters to '_', runs of '_' collapsed, '_'
\* trimmed at both ends, 'Unnamed' if nothing is left or the input is no string,
\* '_' put before a leading digit); the result matches [A-Za-z_][A-Za-z0-9_]*;
\* 'Tip Button' gives 'Tip_Button', '123' '_123', '' 'Unnamed', 'A__B' 'A_B'.
C14_ToIdentifierIsReference ==
    \A c \in DOMAIN genLog :
        /\ Len(genLog[c].safeNames) = Len(genLog[c].input.artboardNames)
        /\ \A i \in DOMAIN genLog[c].safeNames :
              LET n == genLog[c].input.artboardNames[i]
                  id == genLog[c].safeNames[i]
              IN /\ id = Reference(n)
                 /\ IsIdentifier(id)
                 /\ n = TIP_BUTTON => id = TIP_UNDERSCORE_BUTTON
                 /\ n = <<49, 50, 51>> => id = <<UNDERSCORE, 49, 50, 51>>
                 /\ n = <<>> => id = UNNAMED
                 /\ n = <<65, 95, 95, 66>> => id = <<65, 95, 66>>

\* 'Tip Button' and ' A ' in one call
C14_Witness ==
    /\ Len(genLog) = 1
    /\ genLog[1].input.artboardNames = <<TIP_BUTTON, <<32, 65, 32>> >>
    /\ genLog[1].safeNames = <<TIP_UNDERSCORE_BUTTON, <<65>> >>


HasFile(dir, fileName) == \E i \in DOMAIN dir.files : dir.files[i].name = fileName
ContentOf(dir, fileName) ==
    dir.files[CHOOSE i \in DOMAIN dir.files : dir.files[i].name = fileName].content

\* C15: two calls with identical arguments on the same directory return the same
\* file list and state-machine list and leave every file of that list with the
\* same content after the later call as after the earlier one; and a call leaves
\* the caller's name list and mapping as they were.
C15_Idempotent ==
    /\ \A c \in DOMAIN genLog : genLog[c].args = genLog[c].input
    /\ \A c, d \in DOMAIN genLog :
          (c < d /\ genLog[c].input = genLog[d].input) =>
              /\ genLog[d].returned = genLog[c].returned
              /\ \A k \in DOMAIN genLog[d].returned.files :
                    /\ HasFile(genLog[c].dir, genLog[d].returned.files[k])
                    /\ HasFile(genLog[d].dir, genLog[d].returned.files[k])
                    /\ ContentOf(genLog[d].dir, genLog[d].returned.files[k])
                          = ContentOf(genLog[c].dir, genLog[d].returned.files[k])

\* two artboards and state machines, generated twice with the same arguments
C15_Witness ==
    /\ Len(genLog) = 2
    /\ genLog[1].input = genLog[2].input
    /\ Len(genLog[1].input.artboardNames) = 2
    /\ genLog[1].input.options.stateMachinesByArtboard # <<>>
    /\ Len(genLog[2].returned.files) = 4
    /\ outDir = genLog[1].dir

\* the names occurring in the mapping
MappedNames(entries) ==
    UNION {{entries[e].list[k] : k \in DOMAIN entries[e].list} : e \in DOMAIN entries}

PieceText(content, part) ==
    content[CHOOSE i \in DOMAIN content : content[i].part = part].text

Listed(files, fileName) == \E k \in DOMAIN files : files[k] = fileName

\* C16: stateMachines.ts is written, listed in the returned files and
\* re-exported from index.ts exactly when the mapping holds a state-machine name;
\* the returned list, which is the emitted one, is the set of all names in the
\* mapping in strictly ascending order; the emitted mapping is the given one,
\* every list in its order and with its duplicates.
C16_StateMachinesFile ==
    \A c \in DOMAIN genLog :
        LET entries == genLog[c].input.options.stateMachinesByArtboard
            ret == genLog[c].returned
            dir == genLog[c].dir
            any == MappedNames(entries) # {}
        IN /\ any <=> Listed(ret.files, "stateMachines.ts")
           /\ any => HasFile(dir, "stateMachines.ts")
           /\ (~any /\ c = 1) => ~HasFile(dir, "stateMachines.ts")
           /\ any <=> \E i \in DOMAIN ContentOf(dir, "index.ts") :
                          ContentOf(dir, "index.ts")[i].part = "export stateMachines"
           /\ {ret.stateMachineNames[k] : k \in DOMAIN ret.stateMachineNames}
                 = MappedNames(entries)
           /\ \A k, l \in DOMAIN ret.stateMachineNames :
                 k < l => LexLess(ret.stateMachineNames[k], ret.stateMachineNames[l])
           /\ any =>
                 /\ PieceText(ContentOf(dir, "stateMachines.ts"), "const StateMachineNames")
                       = JsonArray(ret.stateMachineNames)
                 /\ PieceText(ContentOf(dir, "stateMachines.ts"),
                              "const stateMachinesByArtboard")
                       = JsonObjectIndented(entries)

\* {'A B': ['T','S','S']}: the list is ['S','T'], the mapping keeps T, S, S
C16_Witness ==
    /\ Len(genLog) = 1
    /\ Len(genLog[1].input.options.stateMachinesByArtboard) = 1
    /\ genLog[1].input.options.stateMachinesByArtboard[1].list = << <<84>>, <<83>>, <<83>> >>
    /\ genLog[1].returned.stateMachineNames = << <<83>>, <<84>> >>
    /\ HasFile(outDir, "stateMachines.ts")

\* C17: when two distinct names of a call get the same identifier,
\* artboardNames.ts declares that identifier once, with the later name as value.
C17_LaterNameWins ==
    \A c \in DOMAIN genLog :
        LET names == genLog[c].input.artboardNames
            ids == genLog[c].safeNames
            consts == SelectSeq(ContentOf(genLog[c].dir, "artboardNames.ts"),
                                LAMBDA p : p.part = "const")
        IN \A i, j \in DOMAIN names :
              (i < j /\ names[i] # names[j] /\ ids[i] = ids[j]
                     /\ \A k \in DOMAIN names : k > j => ids[k] # ids[j]) =>
                  /\ Cardinality({k \in DOMAIN consts : consts[k].id = ids[j]}) = 1
                  /\ \A k \in DOMAIN consts :
                        consts[k].id = ids[j] => consts[k].text = JsonString(names[j])


\* C22: whatever calls were made on the directory, the files in it are the
\* files the most recent call returned, and index.ts re-exports stateMachines
\* exactly when stateMachines.ts is in the directory.
C22_FilesAreLastCallsFiles ==
    genLog # <<>> =>
        LET last == genLog[Len(genLog)].returned.files IN
        /\ {outDir.files[i].name : i \in DOMAIN outDir.files}
              = {last[k] : k \in DOMAIN last}
        /\ HasFile(outDir, "stateMachines.ts")
              <=> \E i \in DOMAIN ContentOf(outDir, "index.ts") :
                     ContentOf(outDir, "index.ts")[i].part = "export stateMachines"

=============================================================================
